---- MODULE Spec2Model ----
(***************************************************************************)
(* A model of mgtts.py, a Wyoming-protocol text-to-speech client.          *)
(*                                                                         *)
(* Four specifications share the module:                                   *)
(*   CodecSpec  the frame codec, send_event and recv_event, at the level   *)
(*              of single bytes and single sock.recv calls;                *)
(*   Spec       the session of main(): the request, the receive loop, the  *)
(*              playback pipeline, the sink process and the interrupt;     *)
(*   SetupSpec  the start of main(): the merge of arguments and config,    *)
(*              the request's data, the choice of a player, the connect;   *)
(*   FormatSpec the audio-start handler and start_streaming_player over    *)
(*              the formats a server can declare.                          *)
(*                                                                         *)
(* A byte is a one-character string; a byte string is a sequence of them.  *)
(* A JSON value is a record [t, v]: t = "s" a string (v its characters),   *)
(* t = "i" an integer, t = "n" null/None, t = "o" an object (a Python      *)
(* dict: v is the sequence of <<key, value>> pairs in insertion order,     *)
(* keys unique).                                                           *)
(***************************************************************************)
EXTENDS Integers, Sequences, FiniteSets, TLC

\* ------------------------------------------------------------------ bounds

\* Frames the peer writes on the stream of one codec run.
MaxFrames == 2

\* Inbound events of one session.
MaxEvents == 4

\* Inbound audio-start events of one FormatSpec session.
MaxStarts == 2

\* ------------------------------------------------------------- JSON values

JStr(s) == [t |-> "s", v |-> s]
JInt(n) == [t |-> "i", v |-> n]
JObj(ps) == [t |-> "o", v |-> ps]
None == [t |-> "n", v |-> 0]
EmptyDict == JObj(<<>>)

\* The one non-ASCII character of the model, U+00E9.
EAcute == "U+00E9"

Min(a, b) == IF a < b THEN a ELSE b

\* Python truthiness of None, a dict, a str, an int.
Truthy(x) == CASE x.t = "n" -> FALSE
               [] x.t = "i" -> x.v # 0
               [] OTHER -> x.v # <<>>

\* d.get(k, dflt) and k in d, for a dict d.
HasKey(d, k) == \E i \in 1..Len(d.v) : d.v[i][1] = k
DictGet(d, k, dflt) ==
    IF HasKey(d, k)
    THEN d.v[CHOOSE i \in 1..Len(d.v) : d.v[i][1] = k][2]
    ELSE dflt

\* d[k] = x: an existing key keeps its place, a new key goes last.
DictSet(d, k, x) ==
    IF HasKey(d, k)
    THEN JObj([i \in 1..Len(d.v) |-> IF d.v[i][1] = k THEN <<k, x>> ELSE d.v[i]])
    ELSE JObj(Append(d.v, <<k, x>>))

\* d.update(e)
RECURSIVE DictUpdate(_, _)
DictUpdate(d, e) ==
    IF e.v = <<>> THEN d
    ELSE DictUpdate(DictSet(d, Head(e.v)[1], Head(e.v)[2]), JObj(Tail(e.v)))

\* --------------------------------------------------------------- json.dumps

Digits == <<"0", "1", "2", "3", "4", "5", "6", "7", "8", "9">>

\* json.dumps of one character of a string (ensure_ascii is on).
EscapeChar(c) ==
    CASE c = "\"" -> <<"\\", "\"">>
      [] c = "\\" -> <<"\\", "\\">>
      [] c = "\n" -> <<"\\", "n">>
      [] c = EAcute -> <<"\\", "u", "0", "0", "e", "9">>
      [] OTHER -> <<c>>

RECURSIVE EscapeStr(_)
EscapeStr(s) == IF s = <<>> THEN <<>> ELSE EscapeChar(Head(s)) \o EscapeStr(Tail(s))

DumpStr(s) == <<"\"">> \o EscapeStr(s) \o <<"\"">>

RECURSIVE DumpNat(_)
DumpNat(n) == IF n < 10 THEN <<Digits[n + 1]>> ELSE DumpNat(n \div 10) \o <<Digits[(n % 10) + 1]>>

DumpInt(n) == IF n < 0 THEN <<"-">> \o DumpNat(-n) ELSE DumpNat(n)

\* json.dumps(x, separators=(",", ":"))
RECURSIVE Dumps(_)
RECURSIVE DumpPairs(_)
DumpPairs(ps) ==
    IF ps = <<>> THEN <<>>
    ELSE DumpStr(ps[1][1]) \o <<":">> \o Dumps(ps[1][2])
         \o (IF Len(ps) > 1 THEN <<",">> \o DumpPairs(Tail(ps)) ELSE <<>>)

Dumps(x) ==
    CASE x.t = "s" -> DumpStr(x.v)
      [] x.t = "i" -> DumpInt(x.v)
      [] x.t = "n" -> <<"n", "u", "l", "l">>
      [] x.t = "o" -> <<"{">> \o DumpPairs(x.v) \o <<"}">>

\* --------------------------------------------------------------- json.loads

\* A parse result: ok, the value, and the index after it.
Fail == [ok |-> FALSE, val |-> None, pos |-> 0]
Ok(x, p) == [ok |-> TRUE, val |-> x, pos |-> p]

IsDigit(c) == \E i \in 1..10 : Digits[i] = c
DigitVal(c) == (CHOOSE i \in 1..10 : Digits[i] = c) - 1

\* The characters of a string, from index i (after the opening quote).
RECURSIVE ParseStrBody(_, _, _)
ParseStrBody(s, i, acc) ==
    IF i > Len(s) THEN Fail
    ELSE IF s[i] = "\"" THEN Ok(acc, i + 1)
    ELSE IF s[i] = "\n" THEN Fail
    ELSE IF s[i] = "\\" THEN
        IF i + 1 > Len(s) THEN Fail
        ELSE IF s[i + 1] = "n" THEN ParseStrBody(s, i + 2, Append(acc, "\n"))
        ELSE IF s[i + 1] \in {"\"", "\\"} THEN ParseStrBody(s, i + 2, Append(acc, s[i + 1]))
        ELSE IF s[i + 1] = "u" THEN
            IF i + 5 <= Len(s) /\ SubSeq(s, i + 2, i + 5) = <<"0", "0", "e", "9">>
            THEN ParseStrBody(s, i + 6, Append(acc, EAcute))
            ELSE Fail
        ELSE Fail
    ELSE ParseStrBody(s, i + 1, Append(acc, s[i]))

RECURSIVE ParseDigits(_, _, _)
ParseDigits(s, i, acc) ==
    IF i <= Len(s) /\ IsDigit(s[i])
    THEN ParseDigits(s, i + 1, acc * 10 + DigitVal(s[i]))
    ELSE Ok(acc, i)

ParseNat(s, i) ==
    IF i > Len(s) \/ ~IsDigit(s[i]) THEN Fail
    ELSE IF s[i] = "0" /\ i + 1 <= Len(s) /\ IsDigit(s[i + 1]) THEN Fail
    ELSE ParseDigits(s, i, 0)

RECURSIVE ParseValue(_, _)
RECURSIVE ParseMembers(_, _, _)

\* The members of an object, from index i (at a key's opening quote); a
\* repeated key takes the last value.
ParseMembers(s, i, acc) ==
    IF i > Len(s) \/ s[i] # "\"" THEN Fail
    ELSE LET k == ParseStrBody(s, i + 1, <<>>) IN
         IF ~k.ok \/ k.pos > Len(s) \/ s[k.pos] # ":" THEN Fail
         ELSE LET x == ParseValue(s, k.pos + 1) IN
              IF ~x.ok \/ x.pos > Len(s) THEN Fail
              ELSE LET d == DictSet(acc, k.val, x.val) IN
                   IF s[x.pos] = "}" THEN Ok(d, x.pos + 1)
                   ELSE IF s[x.pos] = "," THEN ParseMembers(s, x.pos + 1, d)
                   ELSE Fail

ParseValue(s, i) ==
    IF i > Len(s) THEN Fail
    ELSE IF s[i] = "\"" THEN
        LET r == ParseStrBody(s, i + 1, <<>>) IN IF r.ok THEN Ok(JStr(r.val), r.pos) ELSE Fail
    ELSE IF s[i] = "{" THEN
        IF i + 1 <= Len(s) /\ s[i + 1] = "}" THEN Ok(EmptyDict, i + 2)
        ELSE ParseMembers(s, i + 1, EmptyDict)
    ELSE IF s[i] = "-" THEN
        LET r == ParseNat(s, i + 1) IN IF r.ok THEN Ok(JInt(-r.val), r.pos) ELSE Fail
    ELSE IF IsDigit(s[i]) THEN
        LET r == ParseNat(s, i) IN IF r.ok THEN Ok(JInt(r.val), r.pos) ELSE Fail
    ELSE IF i + 3 <= Len(s) /\ SubSeq(s, i, i + 3) = <<"n", "u", "l", "l">> THEN Ok(None, i + 4)
    ELSE Fail

\* json.loads(s): the whole text is one value; ok = FALSE is JSONDecodeError.
Loads(s) ==
    LET r == ParseValue(s, 1) IN
    IF r.ok /\ r.pos = Len(s) + 1 THEN r ELSE Fail

\* ------------------------------------------------------------------ state

VARIABLES
    \* the codec, CodecSpec
    frames,     \* history: the frames put on the stream, in order
    wire,       \* the bytes of the stream that sock.recv has not yet returned
    closed,     \* the peer has closed the stream
    dropped,    \* history: the bytes of the frames that the close cut off
    nread,      \* history: the number of bytes sock.recv has returned
    lastreq,    \* history: the last sock.recv call, [at, n]: n bytes asked at offset at
    short,      \* history: some sock.recv call returned fewer bytes than asked
    rx,         \* the running recv_event call: its position and locals
    events,     \* the events recv_event has returned, in order
    \* the session of main(), Spec
    pc,         \* where main is: "send", "recv", "write", "wait", "play", "done"
    debug,      \* args.debug
    streaming,  \* a streaming player was found
    player,     \* the player chosen
    sent,       \* history: the events sent on the socket
    received,   \* history: the events recv_event has returned to main
    proc,       \* ProcUnbound before line 208, 0 for None, else an index of procs
    procs,      \* the sink processes started, in order
    fmt,        \* the audio format
    pcm_buf,    \* the accumulator
    total_bytes,
    chunk_count,
    writing,    \* the payload of the audio-chunk being written to the sink
    played,     \* history: the calls of play_wav_buffer
    sock_open,  \* the socket is connected and not closed
    sock_closes,\* history: the calls of sock.close
    exitcode,   \* the exit status of the process, Running before it ends
    raised,     \* the exception that ended main, "none" if none
    wfail,      \* history: a write to the sink raised BrokenPipeError
    interrupted,\* history: a KeyboardInterrupt was delivered
    \* the start of main(), SetupSpec
    args,       \* the parsed command line: wyoming, model, speaker, text
    cfg,        \* load_config(): server, model, speaker
    binaries,   \* the binaries shutil.which finds
    addr,       \* host and port, once parsed
    synth_data  \* the data of the synthesize request, once built

codecVars == <<frames, wire, closed, dropped, nread, lastreq, short, rx, events>>

sessionVars ==
    <<pc, debug, streaming, player, sent, received, proc, procs, fmt, pcm_buf,
      total_bytes, chunk_count, writing, played, sock_open, sock_closes,
      exitcode, raised, wfail, interrupted>>

setupVars == <<args, cfg, binaries, addr, synth_data>>

vars == <<codecVars, sessionVars, setupVars>>

\* ------------------------------------------------------------- header keys

KType == <<"t", "y", "p", "e">>
KData == <<"d", "a", "t", "a">>
KDataLength == <<"d", "a", "t", "a", "_", "l", "e", "n", "g", "t", "h">>
KPayloadLength ==
    <<"p", "a", "y", "l", "o", "a", "d", "_", "l", "e", "n", "g", "t", "h">>

\* The largest size recv_event asks of one sock.recv call.
RecvMax == 65536

\* -------------------------------------------------------------- send_event

\* send_event without line 24: the payload's length is not declared.
SendHeaderNoLength(event_type, data, payload) ==
    LET h0 == JObj(<< <<KType, JStr(event_type)>> >>)
    IN IF Truthy(data) THEN DictSet(h0, KData, data) ELSE h0

\* The header dict of send_event(sock, event_type, data, payload).
SendHeader(event_type, data, payload) ==
    LET h0 == JObj(<< <<KType, JStr(event_type)>> >>)
        h1 == IF Truthy(data) THEN DictSet(h0, KData, data) ELSE h0
    IN IF payload # <<>> THEN DictSet(h1, KPayloadLength, JInt(Len(payload))) ELSE h1

\* The bytes send_event hands to sock.sendall: the header line (ASCII, as
\* json.dumps escapes the rest), then the payload if there is one.
SendEventBytes(event_type, data, payload) ==
    (Dumps(SendHeader(event_type, data, payload)) \o <<"\n">>)
    \o (IF payload # <<>> THEN payload ELSE <<>>)

\* -------------------------------------------------------------- recv_event

\* The locals of recv_event at its entry.
RxFresh ==
    [pc |-> "header", buf |-> <<>>, header |-> EmptyDict, event_type |-> None,
     data |-> EmptyDict, data_length |-> 0, extra_buf |-> <<>>,
     remaining |-> 0, parts |-> <<>>, payload |-> <<>>, err |-> "none"]

Raise(r, e) == [r EXCEPT !.pc = "raise", !.err = e]

RECURSIVE Join(_)
Join(parts) == IF parts = <<>> THEN <<>> ELSE Head(parts) \o Join(Tail(parts))

\* Lines 59-63 and 72: the payload length; no payload read when it is not positive.
AfterData(r) ==
    LET payload_length == DictGet(r.header, KPayloadLength, JInt(0)) IN
    IF payload_length.t # "i" THEN Raise(r, "TypeError")
    ELSE IF payload_length.v > 0
    THEN [r EXCEPT !.pc = "payload", !.parts = <<>>, !.remaining = payload_length.v]
    ELSE [r EXCEPT !.pc = "return", !.payload = <<>>]

\* Lines 43-50: the header is parsed, type and data taken, the data block sized.
AfterHeader(r) ==
    LET h == Loads(r.buf) IN
    IF ~h.ok THEN Raise(r, "JSONDecodeError")
    ELSE IF h.val.t # "o" THEN Raise(r, "TypeError")
    ELSE IF ~HasKey(h.val, KType) THEN Raise(r, "KeyError")
    ELSE LET data_length == DictGet(h.val, KDataLength, JInt(0))
             r1 == [r EXCEPT !.header = h.val,
                             !.event_type = DictGet(h.val, KType, None),
                             !.data = DictGet(h.val, KData, EmptyDict)]
         IN IF data_length.t # "i" THEN Raise(r1, "TypeError")
            ELSE IF data_length.v > 0
            THEN [r1 EXCEPT !.pc = "data", !.data_length = data_length.v,
                            !.extra_buf = <<>>]
            ELSE AfterData(r1)

\* Lines 36-41: one sock.recv(1) of the header loop returned b.
RecvHeaderStep(r, b) ==
    IF b = <<>> THEN Raise(r, "ConnectionError")
    ELSE IF b = <<"\n">> THEN AfterHeader(r)
    ELSE [r EXCEPT !.buf = r.buf \o b]

\* Line 56: data.update(json.loads(extra_buf)).
MergeData(r) ==
    LET x == Loads(r.extra_buf) IN
    IF ~x.ok THEN Raise(r, "JSONDecodeError")
    ELSE IF r.data.t # "o" THEN Raise(r, "AttributeError")
    ELSE IF x.val.t = "o" THEN AfterData([r EXCEPT !.data = DictUpdate(r.data, x.val)])
    ELSE IF x.val.t = "s" /\ x.val.v = <<>> THEN AfterData(r)
    ELSE Raise(r, "TypeError")

\* Lines 52-56: one sock.recv of the data block loop returned chunk.
RecvDataStep(r, chunk) ==
    IF chunk = <<>> THEN Raise(r, "ConnectionError")
    ELSE LET r1 == [r EXCEPT !.extra_buf = r.extra_buf \o chunk] IN
         IF Len(r1.extra_buf) < r1.data_length THEN r1 ELSE MergeData(r1)

\* The payload loop counting the bytes it asked for, not the bytes it got.
RecvPayloadStepAsked(r, chunk) ==
    IF chunk = <<>> THEN Raise(r, "ConnectionError")
    ELSE LET r1 == [r EXCEPT !.parts = Append(r.parts, chunk),
                             !.remaining = r.remaining - Min(r.remaining, RecvMax)]
         IN IF r1.remaining > 0 THEN r1
            ELSE [r1 EXCEPT !.pc = "return", !.payload = Join(r1.parts)]

\* The payload loop leaving at the end of the stream instead of raising.
RecvPayloadStepBreak(r, chunk) ==
    IF chunk = <<>> THEN [r EXCEPT !.pc = "return", !.payload = Join(r.parts)]
    ELSE LET r1 == [r EXCEPT !.parts = Append(r.parts, chunk),
                             !.remaining = r.remaining - Len(chunk)]
         IN IF r1.remaining > 0 THEN r1
            ELSE [r1 EXCEPT !.pc = "return", !.payload = Join(r1.parts)]

\* Lines 65-70: one sock.recv of the payload loop returned chunk.
RecvPayloadStep(r, chunk) ==
    IF chunk = <<>> THEN Raise(r, "ConnectionError")
    ELSE LET r1 == [r EXCEPT !.parts = Append(r.parts, chunk),
                             !.remaining = r.remaining - Len(chunk)]
         IN IF r1.remaining > 0 THEN r1
            ELSE [r1 EXCEPT !.pc = "return", !.payload = Join(r1.parts)]

\* The payload loop asking for a full buffer whatever remains.
RequestedFullBuffer(r) ==
    CASE r.pc = "header" -> 1
      [] r.pc = "data" -> r.data_length - Len(r.extra_buf)
      [] r.pc = "payload" -> RecvMax

\* The size the next sock.recv call of recv_event asks for (lines 36, 52, 65).
Requested(r) ==
    CASE r.pc = "header" -> 1
      [] r.pc = "data" -> r.data_length - Len(r.extra_buf)
      [] r.pc = "payload" -> Min(r.remaining, RecvMax)

RecvStep(r, chunk) ==
    CASE r.pc = "header" -> RecvHeaderStep(r, chunk)
      [] r.pc = "data" -> RecvDataStep(r, chunk)
      [] r.pc = "payload" -> RecvPayloadStep(r, chunk)

\* Line 72: the triple recv_event returns.
Returned(r) == [type |-> r.event_type, data |-> r.data, payload |-> r.payload]

\* ---------------------------------------------------------- the transport

\* The sizes sock.recv(n) can return: any non-empty part of what is there,
\* nothing (b"") once the peer has closed and all is read; it blocks otherwise.
RecvSizes(n) ==
    IF wire # <<>> THEN 1..Min(n, Len(wire))
    ELSE IF closed THEN {0}
    ELSE {}

\* One sock.recv call of the running recv_event returning k bytes.
RecvCall(k) ==
    /\ lastreq' = [at |-> nread, n |-> Requested(rx)]
    /\ rx' = RecvStep(rx, SubSeq(wire, 1, k))
    /\ wire' = SubSeq(wire, k + 1, Len(wire))
    /\ nread' = nread + k
    /\ short' = (short \/ (0 < k /\ k < Requested(rx)))
    /\ UNCHANGED <<frames, closed, dropped, events>>

RecvHeader ==
    /\ rx.pc = "header"
    /\ \E k \in RecvSizes(Requested(rx)) : RecvCall(k)

RecvData ==
    /\ rx.pc = "data"
    /\ \E k \in RecvSizes(Requested(rx)) : RecvCall(k)

RecvPayload ==
    /\ rx.pc = "payload"
    /\ \E k \in RecvSizes(Requested(rx)) : RecvCall(k)

\* recv_event returns; its caller keeps the event and calls it again, as the
\* receive loop of main does.
RecvReturn ==
    /\ rx.pc = "return"
    /\ events' = Append(events, Returned(rx))
    /\ rx' = RxFresh
    /\ UNCHANGED <<frames, wire, closed, dropped, nread, lastreq, short>>

\* The peer closes the stream; what it had not yet delivered is never read.
PeerClose ==
    /\ ~closed
    /\ frames # <<>>
    /\ closed' = TRUE
    /\ dropped' = Len(wire)
    /\ wire' = <<>>
    /\ UNCHANGED <<frames, nread, lastreq, short, rx, events>>

\* --------------------------------------------------- the codec's inputs

SeqsUpTo(S, n) == UNION {[1..k -> S] : k \in 1..n}

KRate == <<"r", "a", "t", "e">>

\* A frame as the peer writes it: the header line, with data when D is given,
\* data_length when a data block X is given, payload_length when there is a
\* payload (or both lengths, possibly 0, when explicit), then the block and
\* the payload.
PeerFrameBytes(T, D, X, P, explicit) ==
    LET block == IF X = None THEN <<>> ELSE Dumps(X)
        h0 == JObj(<< <<KType, JStr(T)>> >>)
        h1 == IF D = None THEN h0 ELSE DictSet(h0, KData, D)
        h2 == IF X # None \/ explicit
              THEN DictSet(h1, KDataLength, JInt(Len(block))) ELSE h1
        h3 == IF P # <<>> \/ explicit
              THEN DictSet(h2, KPayloadLength, JInt(Len(P))) ELSE h2
    IN Dumps(h3) \o <<"\n">> \o block \o P

\* A frame of the stream: who wrote it, the event it carries (type, data,
\* payload), the length of its data block and its bytes.
PeerFrame(T, D, X, P, explicit, means) ==
    [via |-> "peer", type |-> JStr(T), data |-> means, payload |-> P,
     dlen |-> IF X = None THEN 0 ELSE Len(Dumps(X)),
     bytes |-> PeerFrameBytes(T, D, X, P, explicit)]

PeerFrames ==
    { \* no data, no payload
      PeerFrame(<<"s">>, None, None, <<>>, FALSE, EmptyDict),
      \* a data block of 14 bytes and a payload holding a newline and a brace
      PeerFrame(<<"c">>, None, JObj(<< <<KRate, JInt(22050)>> >>),
                <<"x", "\n", "{">>, FALSE,
                JObj(<< <<KRate, JInt(22050)>> >>)),
      \* header data and a data block that overrides one of its keys
      PeerFrame(<<"a">>,
                JObj(<< << <<"r">>, JInt(1)>>, << <<"w">>, JInt(2)>> >>),
                JObj(<< << <<"w">>, JInt(5)>>, << <<"c">>, JInt(1)>> >>),
                <<>>, FALSE,
                JObj(<< << <<"r">>, JInt(1)>>, << <<"w">>, JInt(5)>>,
                        << <<"c">>, JInt(1)>> >>)),
      \* a payload only
      PeerFrame(<<"c">>, None, None, <<"\n", "\"">>, FALSE, EmptyDict),
      \* both lengths written as 0
      PeerFrame(<<"z">>, JObj(<< << <<"k">>, JStr(<<"\n">>)>> >>), None, <<>>,
                TRUE, JObj(<< << <<"k">>, JStr(<<"\n">>)>> >>)) }

\* The arguments send_event is called with.
SendTypes == { <<"s">>, <<"a", "\n", "\"">>, <<EAcute, "\\">>, <<>> }

SendData ==
    { None, EmptyDict,
      JObj(<< << <<"k">>, JStr(<<"v">>)>> >>),
      JObj(<< << <<"a", "\"">>, JObj(<< << <<"b">>, JStr(<<"x", "\n", EAcute>>)>> >>)>>,
              << <<"n">>, JInt(10)>> >>),
      JObj(<< <<KPayloadLength, JInt(9)>>, <<KDataLength, JInt(9)>> >>) }

SendPayloads == { <<>>, <<"x">>, <<"\n", "{", "\"">> }

RECURSIVE AllBytes(_)
AllBytes(fs) == IF fs = <<>> THEN <<>> ELSE Head(fs).bytes \o AllBytes(Tail(fs))

\* The stream offset at which frame k ends.
FrameEnd(k) == Len(AllBytes(SubSeq(frames, 1, k)))

\* ------------------------------------------------------ the session, idle

ProcUnbound == -1
Running == -1

SessionOff ==
    /\ pc = "off"
    /\ debug = FALSE
    /\ streaming = FALSE
    /\ player = "none"
    /\ sent = <<>>
    /\ received = <<>>
    /\ proc = ProcUnbound
    /\ procs = <<>>
    /\ fmt = <<>>
    /\ pcm_buf = <<>>
    /\ total_bytes = 0
    /\ chunk_count = 0
    /\ writing = <<>>
    /\ played = <<>>
    /\ sock_open = FALSE
    /\ sock_closes = 0
    /\ exitcode = Running
    /\ raised = "none"
    /\ wfail = FALSE
    /\ interrupted = FALSE

\* Nothing of main() has run: no arguments, no config, no request.
SetupOff ==
    /\ args = [wyoming |-> None, model |-> None, speaker |-> None, text |-> JStr(<<>>)]
    /\ cfg = [server |-> None, model |-> None, speaker |-> None]
    /\ binaries = {}
    /\ addr = None
    /\ synth_data = EmptyDict

\* --------------------------------------------------------------- CodecSpec

\* send_event(sock, T, D, P) on a fresh connection to a peer that reads it back.
SendEvent ==
    /\ frames = <<>>
    /\ \E T \in SendTypes, D \in SendData, P \in SendPayloads :
         /\ frames' = << [via |-> "send_event", type |-> JStr(T), data |-> D,
                          payload |-> P, dlen |-> 0,
                          bytes |-> SendEventBytes(T, D, P)] >>
         /\ wire' = SendEventBytes(T, D, P)
    /\ UNCHANGED <<closed, dropped, nread, lastreq, short, rx, events>>

CodecInit ==
    /\ frames \in SeqsUpTo(PeerFrames, MaxFrames) \cup {<<>>}
    /\ wire = AllBytes(frames)
    /\ closed = FALSE
    /\ dropped = 0
    /\ nread = 0
    /\ lastreq = [at |-> 0, n |-> 0]
    /\ short = FALSE
    /\ rx = RxFresh
    /\ events = <<>>
    /\ SessionOff
    /\ SetupOff

CodecNext ==
    \/ SendEvent /\ UNCHANGED <<sessionVars, setupVars>>
    \/ PeerClose /\ UNCHANGED <<sessionVars, setupVars>>
    \/ RecvHeader /\ UNCHANGED <<sessionVars, setupVars>>
    \/ RecvData /\ UNCHANGED <<sessionVars, setupVars>>
    \/ RecvPayload /\ UNCHANGED <<sessionVars, setupVars>>
    \/ RecvReturn /\ UNCHANGED <<sessionVars, setupVars>>

CodecSpec == CodecInit /\ [][CodecNext]_vars

\* ------------------------------------------------------------ the session

DefaultRate == 22050
DefaultWidth == 2
DefaultChannels == 1

\* The players main looks for: the three that stream, and afplay.
Players == {"sox", "ffplay", "paplay", "afplay"}

\* What the server can send: the events recv_event returns to main.
StartData ==
    { EmptyDict,
      JObj(<< <<"rate", JInt(16000)>>, <<"width", JInt(4)>>, <<"channels", JInt(2)>> >>) }

ChunkPayloads == { <<>>, <<"a">>, <<"b", "c">> }

Event(type, data, pl) == [type |-> type, data |-> data, payload |-> pl]

\* str(n) and the tokens of the command lines.
Str(n) == DumpInt(n)

\* Line 88: {1: "mono", 2: "stereo"}.get(channels, f"{channels}c")
ChLayout(channels) ==
    CASE channels = 1 -> <<"m", "o", "n", "o">>
      [] channels = 2 -> <<"s", "t", "e", "r", "e", "o">>
      [] OTHER -> Str(channels) \o <<"c">>

\* Lines 99 and 102: fmt_map.get(width, 's16le')
FmtMap(width) ==
    CASE width = 2 -> <<"s", "1", "6", "l", "e">>
      [] width = 4 -> <<"s", "3", "2", "l", "e">>
      [] OTHER -> <<"s", "1", "6", "l", "e">>

\* Lines 82-83, 91-94, 101-102: the command line of each player.
SoxArgv(rate, bits, channels) ==
    << <<"p", "l", "a", "y">>, <<"-", "q">>, <<"-", "t">>, <<"r", "a", "w">>, <<"-", "r">>, Str(rate),
       <<"-", "e">>, <<"s", "i", "g", "n", "e", "d", "-", "i", "n", "t", "e", "g", "e", "r">>, <<"-", "b">>, Str(bits), <<"-", "c">>, Str(channels), <<"-">> >>

FfplayArgv(rate, bits, channels, dbg) ==
    << <<"f", "f", "p", "l", "a", "y">>, <<"-", "f">>, <<"s">> \o Str(bits) \o <<"l", "e">>, <<"-", "a", "r">>, Str(rate),
       <<"-", "c", "h", "_", "l", "a", "y", "o", "u", "t">>, ChLayout(channels),
       <<"-", "p", "r", "o", "b", "e", "s", "i", "z", "e">>, <<"3", "2">>,
       <<"-", "a", "n", "a", "l", "y", "z", "e", "d", "u", "r", "a", "t", "i", "o", "n">>, <<"0">>,
       <<"-", "n", "o", "d", "i", "s", "p">>, <<"-", "a", "u", "t", "o", "e", "x", "i", "t">>,
       <<"-", "l", "o", "g", "l", "e", "v", "e", "l">>, IF dbg THEN <<"w", "a", "r", "n", "i", "n", "g">> ELSE <<"q", "u", "i", "e", "t">>,
       <<"-", "i">>, <<"p", "i", "p", "e", ":", "0">> >>

PaplayArgv(rate, width, channels) ==
    << <<"p", "a", "p", "l", "a", "y">>, <<"-", "-", "r", "a", "w">>,
       <<"-", "-", "r", "a", "t", "e", "=">> \o Str(rate),
       <<"-", "-", "c", "h", "a", "n", "n", "e", "l", "s", "=">> \o Str(channels),
       <<"-", "-", "f", "o", "r", "m", "a", "t", "=">> \o FmtMap(width) >>

\* start_streaming_player: the process started, as a sequence of one sink, or
\* of none when the player is not a streaming one (return None).
StartStreamingPlayer(name, rate, width, channels, dbg) ==
    IF name \in {"sox", "ffplay", "paplay"}
    THEN << [player |-> name, rate |-> rate, bits |-> width * 8,
             channels |-> channels, stderr |-> IF dbg THEN "PIPE" ELSE "DEVNULL",
             argv |-> CASE name = "sox" -> SoxArgv(rate, width * 8, channels)
                        [] name = "ffplay" -> FfplayArgv(rate, width * 8, channels, dbg)
                        [] name = "paplay" -> PaplayArgv(rate, width, channels),
             io |-> <<>>, running |-> TRUE] >>
    ELSE <<>>

\* What main did to a sink, appended to its record.
SinkOp(i, op, bytes) ==
    [procs EXCEPT ![i].io = Append(@, [op |-> op, data |-> bytes])]

\* An exit that closes the socket only when no exception is on its way.
ExitNoFinally(status, exc) ==
    /\ pc' = "done"
    /\ sock_open' = (exc # "none")
    /\ sock_closes' = sock_closes + (IF exc = "none" THEN 1 ELSE 0)
    /\ exitcode' = status
    /\ raised' = exc

\* Lines 268-269 and the end of the process: the finally clause closes the
\* socket, then main returns (status 0) or the exception exc ends the process
\* (status 1).
Exit(status, exc) ==
    /\ pc' = "done"
    /\ sock_open' = FALSE
    /\ sock_closes' = sock_closes + 1
    /\ exitcode' = status
    /\ raised' = exc

Stay == UNCHANGED <<sock_open, sock_closes, exitcode, raised>>

\* Lines 156-158: a or b
Or(a, b) == IF Truthy(a) THEN a ELSE b

KText == <<"t", "e", "x", "t">>
KVoice == <<"v", "o", "i", "c", "e">>
KName == <<"n", "a", "m", "e">>
KSpeaker == <<"s", "p", "e", "a", "k", "e", "r">>

\* A request that carries a voice object whatever was selected.
SynthDataAlwaysVoice(text, voice, speaker) ==
    LET v1 == IF Truthy(voice) THEN DictSet(EmptyDict, KName, voice) ELSE EmptyDict
        v2 == IF Truthy(speaker) THEN DictSet(v1, KSpeaker, speaker) ELSE v1
    IN DictSet(DictSet(EmptyDict, KText, text), KVoice, v2)

\* Lines 170-177: the data of the synthesize request.
SynthData(text, voice, speaker) ==
    LET v1 == IF Truthy(voice) THEN DictSet(EmptyDict, KName, voice) ELSE EmptyDict
        v2 == IF Truthy(speaker) THEN DictSet(v1, KSpeaker, speaker) ELSE v1
    IN IF Truthy(voice) \/ Truthy(speaker)
       THEN DictSet(DictSet(EmptyDict, KText, text), KVoice, v2)
       ELSE DictSet(EmptyDict, KText, text)

\* The index of the last ":" of s, 0 if it has none.
LastColon(s) ==
    IF \E i \in 1..Len(s) : s[i] = ":"
    THEN CHOOSE i \in 1..Len(s) : s[i] = ":" /\ \A j \in (i + 1)..Len(s) : s[j] # ":"
    ELSE 0

\* Lines 166-167: server.rsplit(":", 1) and int(port_str); ok = FALSE is the
\* ValueError of the unpacking or of int(). The port strings of the model are
\* decimal digits or letters, for which int() is what ParseDigits computes.
ParseServer(s) ==
    LET c == LastColon(s)
        port_str == SubSeq(s, c + 1, Len(s))
        n == ParseDigits(port_str, 1, 0)
    IN IF c = 0 \/ port_str = <<>> \/ n.pos # Len(port_str) + 1
       THEN [ok |-> FALSE, host |-> <<>>, port |-> 0]
       ELSE [ok |-> TRUE, host |-> SubSeq(s, 1, c - 1), port |-> n.val]

\* Line 183
Binary(name) == IF name = "sox" THEN "play" ELSE name

\* Line 182: the streaming players, in order of preference.
StreamingPlayers == <<"sox", "ffplay", "paplay">>

\* Lines 206-213: the request is sent and the locals of the loop are set.
SendSynthesize ==
    /\ pc = "send"
    /\ sent' = Append(sent, Event("synthesize", synth_data, <<>>))
    /\ proc' = 0
    /\ pc' = "recv"
    /\ Stay
    /\ UNCHANGED <<debug, streaming, player, received, procs, fmt, pcm_buf,
                   total_bytes, chunk_count, writing, played, wfail, interrupted>>

\* Line 206: sock.sendall raises (the peer has reset the connection).
SendFails ==
    /\ pc = "send"
    /\ Exit(1, "OSError")
    /\ UNCHANGED <<debug, streaming, player, sent, received, proc, procs, fmt,
                   pcm_buf, total_bytes, chunk_count, writing, played, wfail,
                   interrupted>>

\* Line 217: recv_event raises (the stream ended, or the frame is malformed).
RecvFails ==
    /\ pc = "recv"
    /\ \E e \in {"ConnectionError", "JSONDecodeError"} : Exit(1, e)
    /\ UNCHANGED <<debug, streaming, player, sent, received, proc, procs, fmt,
                   pcm_buf, total_bytes, chunk_count, writing, played, wfail,
                   interrupted>>

\* A format that falls back to the defaults as a whole when a field is absent.
FormatOfAllOrNothing(data) ==
    IF HasKey(data, "rate") /\ HasKey(data, "width") /\ HasKey(data, "channels")
    THEN [rate |-> DictGet(data, "rate", None).v,
          width |-> DictGet(data, "width", None).v,
          channels |-> DictGet(data, "channels", None).v]
    ELSE [rate |-> DefaultRate, width |-> DefaultWidth, channels |-> DefaultChannels]

\* Lines 224-226: the format an audio-start declares.
FormatOf(data) ==
    [rate |-> DictGet(data, "rate", JInt(DefaultRate)).v,
     width |-> DictGet(data, "width", JInt(DefaultWidth)).v,
     channels |-> DictGet(data, "channels", JInt(DefaultChannels)).v]

\* Lines 217 and 223-231: an audio-start with data out of D is received, as
\* the n-th event at most.
AudioStart(D, n) ==
    /\ pc = "recv"
    /\ Len(received) < n
    /\ \E data \in D :
         LET f == FormatOf(data)
             started == IF streaming
                        THEN StartStreamingPlayer(player, f.rate, f.width, f.channels, debug)
                        ELSE <<>>
         IN /\ received' = Append(received, Event("audio-start", data, <<>>))
            /\ fmt' = f
            /\ procs' = procs \o started
            /\ proc' = IF ~streaming THEN proc
                       ELSE IF started = <<>> THEN 0 ELSE Len(procs) + 1
    /\ Stay
    /\ UNCHANGED <<pc, debug, streaming, player, sent, pcm_buf, total_bytes,
                   chunk_count, writing, played, wfail, interrupted>>

RecvAudioStart == AudioStart(StartData, MaxEvents)

\* An audio-chunk handler that counts a chunk whether or not it has a payload.
RecvAudioChunkCountsEmpty ==
    /\ pc = "recv"
    /\ Len(received) < MaxEvents
    /\ \E pl \in ChunkPayloads :
         /\ received' = Append(received, Event("audio-chunk", EmptyDict, pl))
         /\ total_bytes' = total_bytes + Len(pl)
         /\ chunk_count' = chunk_count + 1
         /\ IF pl = <<>>
            THEN UNCHANGED <<pc, writing, pcm_buf>>
            ELSE IF streaming /\ proc > 0
                 THEN pc' = "write" /\ writing' = pl /\ UNCHANGED pcm_buf
                 ELSE pcm_buf' = pcm_buf \o pl /\ UNCHANGED <<pc, writing>>
    /\ Stay
    /\ UNCHANGED <<debug, streaming, player, sent, proc, procs, fmt, played,
                   wfail, interrupted>>

\* An audio-chunk handler that keeps only the latest payload in the accumulator.
RecvAudioChunkReplaces ==
    /\ pc = "recv"
    /\ Len(received) < MaxEvents
    /\ \E pl \in ChunkPayloads :
         /\ received' = Append(received, Event("audio-chunk", EmptyDict, pl))
         /\ IF pl = <<>>
            THEN UNCHANGED <<pc, total_bytes, chunk_count, writing, pcm_buf>>
            ELSE /\ total_bytes' = total_bytes + Len(pl)
                 /\ chunk_count' = chunk_count + 1
                 /\ IF streaming /\ proc > 0
                    THEN pc' = "write" /\ writing' = pl /\ UNCHANGED pcm_buf
                    ELSE pcm_buf' = pl /\ UNCHANGED <<pc, writing>>
    /\ Stay
    /\ UNCHANGED <<debug, streaming, player, sent, proc, procs, fmt, played,
                   wfail, interrupted>>

\* Lines 217 and 233-237, 245-246: an audio-chunk is received; its payload is
\* counted and either goes to the sink (the write is the next step) or to the
\* accumulator.
RecvAudioChunk ==
    /\ pc = "recv"
    /\ Len(received) < MaxEvents
    /\ \E pl \in ChunkPayloads :
         /\ received' = Append(received, Event("audio-chunk", EmptyDict, pl))
         /\ IF pl = <<>>
            THEN UNCHANGED <<pc, total_bytes, chunk_count, writing, pcm_buf>>
            ELSE /\ total_bytes' = total_bytes + Len(pl)
                 /\ chunk_count' = chunk_count + 1
                 /\ IF streaming /\ proc > 0
                    THEN pc' = "write" /\ writing' = pl /\ UNCHANGED pcm_buf
                    ELSE pcm_buf' = pcm_buf \o pl /\ UNCHANGED <<pc, writing>>
    /\ Stay
    /\ UNCHANGED <<debug, streaming, player, sent, proc, procs, fmt, played,
                   wfail, interrupted>>

\* Lines 239-240: the write and the flush reach the sink.
WriteOk ==
    /\ pc = "write"
    /\ procs[proc].running
    /\ procs' = SinkOp(proc, "write", writing)
    /\ writing' = <<>>
    /\ pc' = "recv"
    /\ Stay
    /\ UNCHANGED <<debug, streaming, player, sent, received, proc, fmt, pcm_buf,
                   total_bytes, chunk_count, played, wfail, interrupted>>

\* A write failure after which the loop goes on to the next event.
WriteBrokenDrain ==
    /\ pc = "write"
    /\ ~procs[proc].running
    /\ wfail' = TRUE
    /\ writing' = <<>>
    /\ pc' = "recv"
    /\ Stay
    /\ UNCHANGED <<debug, streaming, player, sent, received, proc, procs, fmt,
                   pcm_buf, total_bytes, chunk_count, played, interrupted>>

\* Lines 241-244, 268-269: the sink has gone, the write raises
\* BrokenPipeError, the loop is left by break and main returns.
WriteBroken ==
    /\ pc = "write"
    /\ ~procs[proc].running
    /\ wfail' = TRUE
    /\ writing' = <<>>
    /\ Exit(0, "none")
    /\ UNCHANGED <<debug, streaming, player, sent, received, proc, procs, fmt,
                   pcm_buf, total_bytes, chunk_count, played, interrupted>>

\* Lines 217 and 248-263: an audio-stop is received: the sink's input is
\* closed (the wait is the next step), or the accumulator goes to the
\* fallback player (the next step), or there is nothing to play.
RecvAudioStop ==
    /\ pc = "recv"
    /\ Len(received) < MaxEvents
    /\ received' = Append(received, Event("audio-stop", EmptyDict, <<>>))
    /\ IF streaming /\ proc > 0
       THEN /\ procs' = SinkOp(proc, "close", <<>>)
            /\ pc' = "wait"
            /\ Stay
       ELSE IF pcm_buf # <<>>
       THEN /\ pc' = "play"
            /\ Stay
            /\ UNCHANGED procs
       ELSE /\ Exit(0, "none")
            /\ UNCHANGED procs
    /\ UNCHANGED <<debug, streaming, player, sent, proc, fmt, pcm_buf,
                   total_bytes, chunk_count, writing, played, wfail, interrupted>>

\* Lines 255 or 260, then 263: the sink has exited, proc.wait() (or a
\* proc.communicate() that tolerates the closed stdin) returns.
WaitSink ==
    /\ pc = "wait"
    /\ ~procs[proc].running
    /\ procs' = SinkOp(proc, "wait", <<>>)
    /\ Exit(0, "none")
    /\ UNCHANGED <<debug, streaming, player, sent, received, proc, fmt, pcm_buf,
                   total_bytes, chunk_count, writing, played, wfail, interrupted>>

\* Line 255 after line 253: proc.communicate() flushes proc.stdin, which
\* line 253 has closed; in CPython up to 3.11 at least that raises
\* ValueError("flush of closed file") before anything is waited for.
CommunicateRaises ==
    /\ pc = "wait"
    /\ debug
    /\ Exit(1, "ValueError")
    /\ UNCHANGED <<debug, streaming, player, sent, received, proc, procs, fmt,
                   pcm_buf, total_bytes, chunk_count, writing, played, wfail,
                   interrupted>>

\* Line 262: play_wav_buffer plays the accumulator and returns.
PlayOk ==
    /\ pc = "play"
    /\ played' = Append(played, [pcm |-> pcm_buf, fmt |-> fmt, ok |-> TRUE])
    /\ Exit(0, "none")
    /\ UNCHANGED <<debug, streaming, player, sent, received, proc, procs, fmt,
                   pcm_buf, total_bytes, chunk_count, writing, wfail, interrupted>>

\* Line 262: afplay fails (check=True) or is not there.
PlayFails ==
    /\ pc = "play"
    /\ played' = Append(played, [pcm |-> pcm_buf, fmt |-> fmt, ok |-> FALSE])
    /\ \E e \in {"CalledProcessError", "FileNotFoundError"} : Exit(1, e)
    /\ UNCHANGED <<debug, streaming, player, sent, received, proc, procs, fmt,
                   pcm_buf, total_bytes, chunk_count, writing, wfail, interrupted>>

\* A handler that answers an event of another type on the socket.
RecvOtherReplies ==
    /\ pc = "recv"
    /\ Len(received) < MaxEvents
    /\ received' = Append(received, Event("other", EmptyDict, <<>>))
    /\ sent' = Append(sent, Event("other", EmptyDict, <<>>))
    /\ Stay
    /\ UNCHANGED <<pc, debug, streaming, player, proc, procs, fmt, pcm_buf,
                   total_bytes, chunk_count, writing, played, wfail, interrupted>>

\* A handler that takes an event of another type for the end of the response.
RecvOtherStops ==
    /\ pc = "recv"
    /\ Len(received) < MaxEvents
    /\ received' = Append(received, Event("other", EmptyDict, <<>>))
    /\ Exit(0, "none")
    /\ UNCHANGED <<debug, streaming, player, sent, proc, procs, fmt, pcm_buf,
                   total_bytes, chunk_count, writing, played, wfail, interrupted>>

\* Line 217 and the end of the if chain: an event of another type.
RecvOther ==
    /\ pc = "recv"
    /\ Len(received) < MaxEvents
    /\ received' = Append(received, Event("other", EmptyDict, <<>>))
    /\ Stay
    /\ UNCHANGED <<pc, debug, streaming, player, sent, proc, procs, fmt, pcm_buf,
                   total_bytes, chunk_count, writing, played, wfail, interrupted>>

\* Lines 265-269: a KeyboardInterrupt arrives inside the try block. Before
\* line 208 proc is not bound and the handler's test raises
\* UnboundLocalError; after it the sink, if any, is terminated and main
\* returns.
Interrupt ==
    /\ pc \in {"send", "recv", "write", "wait", "play"}
    /\ interrupted' = TRUE
    /\ IF proc = ProcUnbound
       THEN Exit(1, "UnboundLocalError") /\ UNCHANGED procs
       ELSE /\ procs' = IF proc > 0
                        THEN [SinkOp(proc, "terminate", <<>>) EXCEPT ![proc].running = FALSE]
                        ELSE procs
            /\ Exit(0, "none")
    /\ UNCHANGED <<debug, streaming, player, sent, received, proc, fmt, pcm_buf,
                   total_bytes, chunk_count, writing, played, wfail>>

\* A sink process ends: it has played its input to the end, or it has died.
SinkExits ==
    /\ pc # "done"
    /\ \E i \in 1..Len(procs) :
         /\ procs[i].running
         /\ procs' = [procs EXCEPT ![i].running = FALSE]
    /\ Stay
    /\ UNCHANGED <<pc, debug, streaming, player, sent, received, proc, fmt,
                   pcm_buf, total_bytes, chunk_count, writing, played, wfail,
                   interrupted>>

CodecOff ==
    /\ frames = <<>>
    /\ wire = <<>>
    /\ closed = FALSE
    /\ dropped = 0
    /\ nread = 0
    /\ lastreq = [at |-> 0, n |-> 0]
    /\ short = FALSE
    /\ rx = RxFresh
    /\ events = <<>>

\* The state at line 204: connected, a player chosen, nothing sent yet.
Init ==
    /\ CodecOff
    /\ pc = "send"
    /\ debug \in BOOLEAN
    /\ player \in Players
    /\ streaming = (player # "afplay")
    /\ sent = <<>>
    /\ received = <<>>
    /\ proc = ProcUnbound
    /\ procs = <<>>
    /\ fmt = [rate |-> DefaultRate, width |-> DefaultWidth, channels |-> DefaultChannels]
    /\ pcm_buf = <<>>
    /\ total_bytes = 0
    /\ chunk_count = 0
    /\ writing = <<>>
    /\ played = <<>>
    /\ sock_open = TRUE
    /\ sock_closes = 0
    /\ exitcode = Running
    /\ raised = "none"
    /\ wfail = FALSE
    /\ interrupted = FALSE
    /\ args = [wyoming |-> JStr(<<"h", ":", "1">>), model |-> None, speaker |-> None,
               text |-> JStr(<<"h", "i">>)]
    /\ cfg = [server |-> None, model |-> None, speaker |-> None]
    /\ binaries = {Binary(player)}
    /\ addr = [host |-> <<"h">>, port |-> 1]
    /\ synth_data = SynthData(args.text, None, None)

Next ==
    \/ SendSynthesize /\ UNCHANGED <<codecVars, setupVars>>
    \/ SendFails /\ UNCHANGED <<codecVars, setupVars>>
    \/ RecvFails /\ UNCHANGED <<codecVars, setupVars>>
    \/ RecvAudioStart /\ UNCHANGED <<codecVars, setupVars>>
    \/ RecvAudioChunk /\ UNCHANGED <<codecVars, setupVars>>
    \/ WriteOk /\ UNCHANGED <<codecVars, setupVars>>
    \/ WriteBroken /\ UNCHANGED <<codecVars, setupVars>>
    \/ RecvAudioStop /\ UNCHANGED <<codecVars, setupVars>>
    \/ WaitSink /\ UNCHANGED <<codecVars, setupVars>>
    \/ CommunicateRaises /\ UNCHANGED <<codecVars, setupVars>>
    \/ PlayOk /\ UNCHANGED <<codecVars, setupVars>>
    \/ PlayFails /\ UNCHANGED <<codecVars, setupVars>>
    \/ RecvOther /\ UNCHANGED <<codecVars, setupVars>>
    \/ Interrupt /\ UNCHANGED <<codecVars, setupVars>>
    \/ SinkExits /\ UNCHANGED <<codecVars, setupVars>>

Spec == Init /\ [][Next]_vars

\* --------------------------------------------------------------- SetupSpec

\* The command lines and config files of the model. None is an option not
\* given or a key not set; the empty string is -m "" or a line "model=".
ArgServers == {None, JStr(<<"h", ":", "1">>), JStr(<<"h">>), JStr(<<"h", ":", "x">>)}
CfgServers == {None, JStr(<<"g", ":", "2", "0">>)}
ArgModels == {None, JStr(<<>>), JStr(<<"m">>)}
CfgModels == {None, JStr(<<"n">>)}
ArgSpeakers == {None, JStr(<<"0">>)}
CfgSpeakers == {None, JStr(<<>>), JStr(<<"1">>)}
Texts == {JStr(<<"h", "i">>), JStr(<<>>)}
AllBinaries == {"play", "ffplay", "paplay", "afplay"}

\* sys.exit(status), or an exception, before the socket exists or outside the
\* try of line 204: the process ends, no finally clause runs.
SetupExit(status, exc) ==
    /\ pc' = "done"
    /\ exitcode' = status
    /\ raised' = exc
    /\ UNCHANGED <<sock_open, sock_closes>>

\* Lines 156-177: the merge of command line and config, the server address,
\* the data of the request.
BuildRequest ==
    /\ pc = "args"
    /\ LET server == Or(args.wyoming, cfg.server)
           voice == Or(args.model, cfg.model)
           speaker == Or(args.speaker, cfg.speaker)
       IN IF ~Truthy(server)
          THEN SetupExit(1, "SystemExit") /\ UNCHANGED <<addr, synth_data>>
          ELSE LET a == ParseServer(server.v) IN
               IF ~a.ok
               THEN SetupExit(1, "ValueError") /\ UNCHANGED <<addr, synth_data>>
               ELSE /\ addr' = [host |-> a.host, port |-> a.port]
                    /\ synth_data' = SynthData(args.text, voice, speaker)
                    /\ pc' = "pick"
                    /\ Stay
    /\ UNCHANGED <<debug, streaming, player, sent, received, proc, procs, fmt,
                   pcm_buf, total_bytes, chunk_count, writing, played, wfail,
                   interrupted, args, cfg, binaries>>

\* Lines 180-194: the first streaming player whose binary is found, else
\* afplay, else exit.
PickPlayer ==
    /\ pc = "pick"
    /\ IF \E i \in 1..Len(StreamingPlayers) : Binary(StreamingPlayers[i]) \in binaries
       THEN LET i == CHOOSE i \in 1..Len(StreamingPlayers) :
                        /\ Binary(StreamingPlayers[i]) \in binaries
                        /\ \A j \in 1..(i - 1) : Binary(StreamingPlayers[j]) \notin binaries
            IN /\ player' = StreamingPlayers[i]
               /\ streaming' = TRUE
               /\ pc' = "connect"
               /\ Stay
       ELSE IF "afplay" \in binaries
       THEN /\ player' = "afplay"
            /\ streaming' = FALSE
            /\ pc' = "connect"
            /\ Stay
       ELSE /\ player' = "none"
            /\ streaming' = TRUE
            /\ SetupExit(1, "SystemExit")
    /\ UNCHANGED <<debug, sent, received, proc, procs, fmt, pcm_buf, total_bytes,
                   chunk_count, writing, played, wfail, interrupted, setupVars>>

\* Lines 197-199: the connection is made.
Connect ==
    /\ pc = "connect"
    /\ pc' = "send"
    /\ sock_open' = TRUE
    /\ UNCHANGED <<sock_closes, exitcode, raised>>
    /\ UNCHANGED <<debug, streaming, player, sent, received, proc, procs, fmt,
                   pcm_buf, total_bytes, chunk_count, writing, played, wfail,
                   interrupted, setupVars>>

\* Lines 200-202: sock.connect raises OSError.
ConnectFails ==
    /\ pc = "connect"
    /\ SetupExit(1, "SystemExit")
    /\ UNCHANGED <<debug, streaming, player, sent, received, proc, procs, fmt,
                   pcm_buf, total_bytes, chunk_count, writing, played, wfail,
                   interrupted, setupVars>>

\* The state at line 140: a command line, a config, the binaries installed.
\* fmt holds the value of line 210 from the start: nothing reads it before.
SetupInit ==
    /\ CodecOff
    /\ pc = "args"
    /\ debug \in BOOLEAN
    /\ streaming = FALSE
    /\ player = "none"
    /\ sent = <<>>
    /\ received = <<>>
    /\ proc = ProcUnbound
    /\ procs = <<>>
    /\ fmt = [rate |-> DefaultRate, width |-> DefaultWidth, channels |-> DefaultChannels]
    /\ pcm_buf = <<>>
    /\ total_bytes = 0
    /\ chunk_count = 0
    /\ writing = <<>>
    /\ played = <<>>
    /\ sock_open = FALSE
    /\ sock_closes = 0
    /\ exitcode = Running
    /\ raised = "none"
    /\ wfail = FALSE
    /\ interrupted = FALSE
    /\ args \in [wyoming : ArgServers, model : ArgModels, speaker : ArgSpeakers,
                  text : Texts]
    /\ cfg \in [server : CfgServers, model : CfgModels, speaker : CfgSpeakers]
    /\ binaries \in SUBSET AllBinaries
    /\ addr = None
    /\ synth_data = EmptyDict

SetupNext ==
    \/ BuildRequest /\ UNCHANGED codecVars
    \/ PickPlayer /\ UNCHANGED codecVars
    \/ Connect /\ UNCHANGED codecVars
    \/ ConnectFails /\ UNCHANGED codecVars
    \/ SendSynthesize /\ UNCHANGED <<codecVars, setupVars>>
    \/ SendFails /\ UNCHANGED <<codecVars, setupVars>>

SetupSpec == SetupInit /\ [][SetupNext]_vars

\* -------------------------------------------------------------- FormatSpec

\* A key of an audio-start's data, present when x is not 0.
OptPair(k, x) == IF x = 0 THEN <<>> ELSE << <<k, JInt(x)>> >>

\* The data of an audio-start: each of rate, width, channels present or not.
AnyStartData ==
    { JObj(OptPair("rate", r) \o OptPair("width", w) \o OptPair("channels", c)) :
        r \in {0, 16000}, w \in 0..4, c \in 0..3 }

RecvAudioStartAny == AudioStart(AnyStartData, MaxStarts)

FormatNext ==
    \/ SendSynthesize /\ UNCHANGED <<codecVars, setupVars>>
    \/ RecvAudioStartAny /\ UNCHANGED <<codecVars, setupVars>>

FormatSpec == Init /\ [][FormatNext]_vars

\* ------------------------------------------------------ the codec's claims

\* The event a frame carries, as recv_event is to return it.
Carried(f) ==
    [type |-> f.type,
     data |-> IF f.via = "send_event" /\ ~Truthy(f.data) THEN EmptyDict ELSE f.data,
     payload |-> f.payload]

\* The bytes of the frames that the peer delivered before it closed.
Delivered == SubSeq(AllBytes(frames), 1, Len(AllBytes(frames)) - dropped)

\* The frames that were delivered whole.
CompleteFrames == Cardinality({k \in 1..Len(frames) : FrameEnd(k) <= Len(Delivered)})

\* The frame that holds the stream offset at (0-based), 0 if none does.
FrameAt(at) ==
    IF at >= Len(AllBytes(frames)) THEN 0
    ELSE CHOOSE k \in 1..Len(frames) : FrameEnd(k - 1) <= at /\ at < FrameEnd(k)

\* recv_event called again and again on the stream w, every sock.recv
\* returning all it was asked for (or what is left): the events returned and
\* the exception that ends it.
RECURSIVE DecodeWhole(_, _, _)
DecodeWhole(r, w, evs) ==
    IF r.pc = "raise" THEN [events |-> evs, err |-> r.err]
    ELSE IF r.pc = "return" THEN DecodeWhole(RxFresh, w, Append(evs, Returned(r)))
    ELSE LET n == Min(Requested(r), Len(w)) IN
         DecodeWhole(RecvStep(r, SubSeq(w, 1, n)), SubSeq(w, n + 1, Len(w)), evs)

\* C1: round trip. recv_event run on exactly the bytes of send_event(T, D, P)
\* returns the type T, the data D (the empty dict when D is empty or None)
\* and the payload P, and nothing else is decoded from those bytes.
C1_RoundTrip ==
    (frames # <<>> /\ frames[1].via = "send_event") =>
        /\ Len(events) <= 1
        /\ events # <<>> =>
             /\ events[1].type = frames[1].type
             /\ events[1].data =
                   (IF frames[1].data \in {None, EmptyDict} THEN EmptyDict
                    ELSE frames[1].data)
             /\ events[1].payload = frames[1].payload
             /\ nread >= Len(frames[1].bytes)
        /\ rx.pc = "raise" => rx.err = "ConnectionError"
        /\ (rx.pc = "raise" /\ dropped = 0) => Len(events) = 1

C1_Witness ==
    /\ frames # <<>>
    /\ frames[1].via = "send_event"
    /\ frames[1].type = JStr(<<"a", "\n", "\"">>)
    /\ frames[1].data.t = "o"
    /\ HasKey(frames[1].data, <<"a", "\"">>)
    /\ frames[1].payload = <<"\n", "{", "\"">>
    /\ Len(events) = 1

\* C2: partial reads. Whatever sizes the sock.recv calls returned, the events
\* decoded from a stream and the error that ends the decoding are those
\* decoded when every call returns all it was asked for.
C2_PartialReads ==
    (rx.pc = "raise" /\ closed) =>
        [events |-> events, err |-> rx.err] = DecodeWhole(RxFresh, Delivered, <<>>)

C2_Witness ==
    /\ rx.pc = "raise"
    /\ closed
    /\ short
    /\ dropped = 0
    /\ Len(events) = 2
    /\ events[1].payload # <<>>
    /\ events[2].data # EmptyDict

\* C3: length-prefix exactness. No sock.recv call asks for bytes beyond the
\* end of the frame it reads in; the data block starts M + N bytes and the
\* payload N bytes before the end of the frame; when recv_event returns, the
\* stream is at the end of the frame, and every event returned is the one its
\* frame carries, a frame that follows another included.
C3_LengthPrefixExact ==
    /\ FrameAt(lastreq.at) # 0 =>
           lastreq.at + lastreq.n <= FrameEnd(FrameAt(lastreq.at))
    /\ Len(events) <= Len(frames)
    /\ \A i \in 1..Len(events) : events[i] = Carried(frames[i])
    /\ rx.pc \in {"data", "payload", "return"} =>
         LET k == Len(events) + 1 IN
         /\ k <= Len(frames)
         /\ rx.pc = "data" =>
              nread = FrameEnd(k) - Len(frames[k].payload) - frames[k].dlen
                        + Len(rx.extra_buf)
         /\ rx.pc = "payload" =>
              nread = FrameEnd(k) - Len(frames[k].payload) + Len(Join(rx.parts))
         /\ rx.pc = "return" => nread = FrameEnd(k)

C3_Witness ==
    /\ Len(events) = 2
    /\ frames[1].dlen > 0
    /\ frames[1].payload # <<>>
    /\ frames[2].payload # <<>>
    /\ nread = FrameEnd(2)

\* C4: premature termination. A stream that ends inside a frame (before the
\* newline of its header, inside its data block or inside its payload) makes
\* recv_event raise ConnectionError; only frames delivered whole are ever
\* returned as events, each with its whole data and payload.
C4_PrematureTermination ==
    /\ Len(events) + (IF rx.pc = "return" THEN 1 ELSE 0) <= CompleteFrames
    /\ \A i \in 1..Len(events) :
         /\ events[i].data = Carried(frames[i]).data
         /\ Len(events[i].payload) = Len(frames[i].payload)
    /\ rx.pc = "raise" =>
         /\ closed
         /\ rx.err = "ConnectionError"
         /\ Len(events) = CompleteFrames

C4_Witness ==
    /\ rx.pc = "raise"
    /\ dropped > 0
    /\ rx.parts # <<>>
    /\ Len(events) = 1

C4_WitnessData ==
    /\ rx.pc = "raise"
    /\ dropped > 0
    /\ rx.extra_buf # <<>>
    /\ rx.parts = <<>>

\* ---------------------------------------------------- the session's claims

Last(q) == q[Len(q)]

\* The positions of the audio-start events received.
Starts == {i \in 1..Len(received) : received[i].type = "audio-start"}

\* The non-empty audio-chunk payloads of a sequence of events, as writes.
RECURSIVE ChunkWrites(_)
ChunkWrites(evs) ==
    IF evs = <<>> THEN <<>>
    ELSE (IF Head(evs).type = "audio-chunk" /\ Head(evs).payload # <<>>
          THEN << [op |-> "write", data |-> Head(evs).payload] >> ELSE <<>>)
         \o ChunkWrites(Tail(evs))

\* received is audio-start, audio-chunk ..., audio-stop.
IsResponse ==
    /\ Len(received) >= 2
    /\ received[1].type = "audio-start"
    /\ Last(received).type = "audio-stop"
    /\ \A i \in 2..(Len(received) - 1) : received[i].type = "audio-chunk"

\* How often main closed the input of a sink.
Closes(sink) == Cardinality({j \in 1..Len(sink.io) : sink.io[j].op = "close"})

C6_SocketClosedOnExit ==
    pc = "done" => (~sock_open /\ sock_closes = 1)

C6_Witness ==
    /\ pc = "done"
    /\ raised = "ConnectionError"
    /\ procs # <<>>
    /\ ~sock_open

C6_WitnessInterrupt ==
    /\ pc = "done"
    /\ interrupted
    /\ ~sock_open

\* C7: first declaration wins, as claimed. Once an audio-start has been
\* processed, the format is the one it declared and no other sink process is
\* started, whatever audio-start events follow.
C7_FirstDeclarationWins ==
    Starts # {} =>
        LET first == CHOOSE i \in Starts : \A j \in Starts : i <= j IN
        /\ fmt = FormatOf(received[first].data)
        /\ Len(procs) <= 1

\* C8: every sink started has its input closed exactly once by the time the
\* session has ended, be it at audio-stop or at a failed write (sessions ended
\* by an exception or an interrupt left aside).
C8_SinkClosedExactlyOnce ==
    (pc = "done" /\ raised = "none" /\ ~interrupted) =>
        \A i \in 1..Len(procs) : Closes(procs[i]) = 1

\* C9: streaming with no sink failure. For a response audio-start, chunks,
\* audio-stop in a session that is not interrupted, the one sink was written
\* each non-empty payload once, in order and unchanged, then its input was
\* closed, then it was waited for.
C9_StreamingForward ==
    (pc = "done" /\ streaming /\ IsResponse /\ ~wfail /\ ~interrupted) =>
        /\ Len(procs) = 1
        /\ procs[1].io = ChunkWrites(received)
                           \o << [op |-> "close", data |-> <<>>],
                                 [op |-> "wait", data |-> <<>>] >>
        /\ ~procs[1].running

\* C10: a session in which a write to the sink failed ends with a non-zero
\* exit status.
C10_SinkFailureExitsNonZero ==
    (pc = "done" /\ wfail) => exitcode # 0

\* C11: cancellation, as claimed. A session that an interrupt has ended has
\* terminated its sink, if it had started one, and has not ended as a normal
\* success: the interrupt reaches the caller.
C11_Cancellation ==
    (pc = "done" /\ interrupted) =>
        /\ proc > 0 => \E j \in 1..Len(procs[proc].io) : procs[proc].io[j].op = "terminate"
        /\ exitcode # 0

\* C12: one request. At most one event is ever sent, it is a synthesize
\* event, and it has been sent by the time main decodes its first inbound
\* event, whatever the server sends.
C12_OneRequest ==
    /\ Len(sent) <= 1
    /\ \A i \in 1..Len(sent) : sent[i].type = "synthesize"
    /\ pc \in {"recv", "write", "wait", "play"} => Len(sent) = 1
    /\ received # <<>> => Len(sent) = 1

C12_Witness ==
    /\ pc = "done"
    /\ Len(sent) = 1
    /\ Len(received) >= 3
    /\ \E i \in 1..Len(received) : received[i].type = "other"

\* A step in which main decodes an event of the given type.
Decodes(type) ==
    /\ Len(received') = Len(received) + 1
    /\ received'[Len(received')].type = type

\* What an ignored event leaves alone: all but the history of events, with
\* the loop back at recv_event.
Ignored ==
    /\ pc' = "recv"
    /\ UNCHANGED <<sent, proc, procs, fmt, pcm_buf, total_bytes, chunk_count,
                   writing, played, sock_open, sock_closes, exitcode, raised,
                   wfail>>

\* C15: an audio-chunk with an empty payload is a no-op in every state of the
\* pipeline: nothing is written or buffered, the counters, the format and
\* the sink stay, and the loop goes on.
C15_EmptyChunkNoOp ==
    [][(Decodes("audio-chunk") /\ received'[Len(received')].payload = <<>>)
          => Ignored]_vars

C15_Witness ==
    /\ pc = "recv"
    /\ Len(received) = 3
    /\ received[1].type = "audio-start"
    /\ received[2].payload # <<>>
    /\ received[3].type = "audio-chunk"
    /\ received[3].payload = <<>>
    /\ streaming

C15_WitnessBuffering ==
    /\ pc = "recv"
    /\ ~streaming
    /\ pcm_buf # <<>>
    /\ Last(received).type = "audio-chunk"
    /\ Last(received).payload = <<>>

\* C16: an event whose type is none of audio-start, audio-chunk, audio-stop
\* is ignored: format, sink, buffer and counters stay, nothing is written,
\* and the loop goes on to the next event.
C16_UnknownIgnored ==
    [][(Len(received') = Len(received) + 1
        /\ received'[Len(received')].type
              \notin {"audio-start", "audio-chunk", "audio-stop"})
          => Ignored]_vars

C16_Witness ==
    /\ pc = "recv"
    /\ Len(received) = 3
    /\ received[1].type = "audio-start"
    /\ received[2].type = "other"
    /\ received[3].type = "audio-chunk"

\* The payloads of the audio-chunk events of a sequence, one after another.
RECURSIVE AllPayloads(_)
AllPayloads(evs) ==
    IF evs = <<>> THEN <<>>
    ELSE (IF Head(evs).type = "audio-chunk" THEN Head(evs).payload ELSE <<>>)
         \o AllPayloads(Tail(evs))

\* The format of the latest audio-start received, the defaults if none was.
LatestFormat ==
    IF Starts = {} THEN [rate |-> DefaultRate, width |-> DefaultWidth, channels |-> DefaultChannels]
    ELSE LET d == received[CHOOSE i \in Starts : \A j \in Starts : j <= i].data IN
         [rate |-> IF HasKey(d, "rate") THEN DictGet(d, "rate", None).v ELSE DefaultRate,
          width |-> IF HasKey(d, "width") THEN DictGet(d, "width", None).v ELSE DefaultWidth,
          channels |-> IF HasKey(d, "channels") THEN DictGet(d, "channels", None).v ELSE DefaultChannels]

\* C17: buffering mode. No sink process is started; the accumulator is the
\* payloads received, in order; the fallback player is called at most once,
\* at audio-stop, with all the payloads and the format of the audio-start, and
\* it is called exactly when there is something to play.
C17_Buffering ==
    ~streaming =>
        /\ procs = <<>>
        /\ pcm_buf = AllPayloads(received)
        /\ Len(played) <= 1
        /\ played # <<>> =>
             /\ Last(received).type = "audio-stop"
             /\ played[1].pcm = AllPayloads(received)
             /\ played[1].pcm # <<>>
             /\ played[1].fmt = LatestFormat
        /\ (pc = "done" /\ received # <<>> /\ Last(received).type = "audio-stop"
            /\ ~interrupted) =>
             Len(played) = (IF AllPayloads(received) = <<>> THEN 0 ELSE 1)

C17_Witness ==
    /\ ~streaming
    /\ pc = "done"
    /\ Len(played) = 1
    /\ played[1].pcm = <<"a", "b", "c">>
    /\ played[1].fmt.rate = 16000

C17_WitnessNothing ==
    /\ ~streaming
    /\ pc = "done"
    /\ raised = "none"
    /\ ~interrupted
    /\ played = <<>>
    /\ Len(received) = 3

\* C18: the loop ends, as claimed. No event is decoded after an audio-stop;
\* the session that has processed an audio-stop has ended with success
\* (interrupts and failures of the fallback player left aside); the session
\* in which recv_event failed has ended with an error.
C18_LoopEnds ==
    /\ \A i \in 1..(Len(received) - 1) : received[i].type # "audio-stop"
    /\ (pc = "done" /\ received # <<>> /\ Last(received).type = "audio-stop"
        /\ ~interrupted /\ raised \notin {"CalledProcessError", "FileNotFoundError"}) =>
          (exitcode = 0 /\ raised = "none")
    /\ (pc = "done" /\ raised \in {"ConnectionError", "JSONDecodeError"}) =>
          exitcode = 1

\* The bytes written to the sinks and the bytes handed to the fallback player.
RECURSIVE IoBytes(_)
IoBytes(io) ==
    IF io = <<>> THEN 0
    ELSE (IF Head(io).op = "write" THEN Len(Head(io).data) ELSE 0) + IoBytes(Tail(io))

RECURSIVE SinkBytes(_)
SinkBytes(ps) == IF ps = <<>> THEN 0 ELSE IoBytes(Head(ps).io) + SinkBytes(Tail(ps))

RECURSIVE PlayedBytes(_)
PlayedBytes(pl) == IF pl = <<>> THEN 0 ELSE Len(Head(pl).pcm) + PlayedBytes(Tail(pl))

\* C20: no audio is dropped. In a session that has ended at audio-stop with
\* no failure, every byte counted in total_bytes has gone to playback: it was
\* written to a sink or was in the buffer handed to the fallback player.
C20_NoAudioDropped ==
    (pc = "done" /\ received # <<>> /\ Last(received).type = "audio-stop"
     /\ ~wfail /\ ~interrupted /\ raised = "none") =>
        total_bytes = SinkBytes(procs) + PlayedBytes(played)

\* ------------------------------------------------- the claims of the setup

\* A selector is supplied when the command line or the config gives it a
\* non-empty value.
Given(x) == x.t = "s" /\ x.v # <<>>
VoiceSupplied == Given(args.model) \/ Given(cfg.model)
SpeakerSupplied == Given(args.speaker) \/ Given(cfg.speaker)

\* C13: the data of the synthesize request always holds the text; it holds a
\* voice object exactly when a voice name or a speaker was supplied, and the
\* voice object holds name exactly when a name was supplied and speaker
\* exactly when a speaker was supplied; with neither, the data is {text}.
C13_SynthesizeData ==
    \A i \in 1..Len(sent) :
        LET d == sent[i].data
            v == DictGet(d, KVoice, EmptyDict)
        IN /\ sent[i].type = "synthesize"
           /\ HasKey(d, KText)
           /\ DictGet(d, KText, None) = args.text
           /\ HasKey(d, KVoice) <=> (VoiceSupplied \/ SpeakerSupplied)
           /\ HasKey(d, KVoice) =>
                /\ HasKey(v, KName) <=> VoiceSupplied
                /\ HasKey(v, KSpeaker) <=> SpeakerSupplied
                /\ VoiceSupplied =>
                     DictGet(v, KName, None)
                       = (IF Given(args.model) THEN args.model ELSE cfg.model)
                /\ SpeakerSupplied =>
                     DictGet(v, KSpeaker, None)
                       = (IF Given(args.speaker) THEN args.speaker ELSE cfg.speaker)
           /\ ~(VoiceSupplied \/ SpeakerSupplied) => d = JObj(<< <<KText, args.text>> >>)

C13_Witness ==
    /\ Len(sent) = 1
    /\ sent[1].data =
         JObj(<< <<KText, JStr(<<"h", "i">>)>>,
                 <<KVoice, JObj(<< <<KName, JStr(<<"m">>)>>,
                                   <<KSpeaker, JStr(<<"0">>)>> >>)>> >>)

C13_WitnessNoVoice ==
    /\ Len(sent) = 1
    /\ args.model = JStr(<<>>)
    /\ cfg.speaker = JStr(<<>>)
    /\ sent[1].data = JObj(<< <<KText, JStr(<<"h", "i">>)>> >>)

C13_WitnessSpeakerOnly ==
    /\ Len(sent) = 1
    /\ Dumps(sent[1].data)
         = <<"{", "\"", "t", "e", "x", "t", "\"", ":", "\"", "h", "i", "\"", ",", "\"", "v", "o", "i", "c", "e", "\"", ":", "{", "\"", "s", "p", "e", "a", "k", "e", "r", "\"", ":", "\"", "1", "\"", "}", "}">>

\* -------------------------------------------- the claims of the formats

\* The argument that follows the option flag, and the rest of the argument
\* that starts with pre.
ArgAfter(argv, flag) == argv[(CHOOSE i \in 1..Len(argv) : argv[i] = flag) + 1]
StartsWith(s, pre) == Len(s) >= Len(pre) /\ SubSeq(s, 1, Len(pre)) = pre
ArgWith(argv, pre) ==
    LET a == argv[CHOOSE i \in 1..Len(argv) : StartsWith(argv[i], pre)]
    IN SubSeq(a, Len(pre) + 1, Len(a))

\* The number a decimal token denotes, -1 if it is not one.
NatOf(tok) ==
    LET n == ParseDigits(tok, 1, 0)
    IN IF tok # <<>> /\ n.pos = Len(tok) + 1 THEN n.val ELSE -1

\* A sample format name such as s16le: its sign, its depth, its byte order.
SampleFormat(tok) ==
    LET n == ParseDigits(tok, 2, 0)
    IN [signed |-> tok # <<>> /\ tok[1] = "s",
        bits |-> IF n.pos > 2 THEN n.val ELSE -1,
        le |-> SubSeq(tok, n.pos, Len(tok)) = <<"l", "e">>]

\* The channels an ffplay channel layout names.
LayoutChannels(tok) ==
    CASE tok = <<"m", "o", "n", "o">> -> 1
      [] tok = <<"s", "t", "e", "r", "e", "o">> -> 2
      [] OTHER -> IF tok # <<>> /\ tok[Len(tok)] = "c"
                  THEN NatOf(SubSeq(tok, 1, Len(tok) - 1)) ELSE -1

\* What the command line of a sink tells its player about the samples.
\* sox names no byte order.
Declared(sink) ==
    CASE sink.player = "sox" ->
           [rate |-> NatOf(ArgAfter(sink.argv, <<"-", "r">>)),
            bits |-> NatOf(ArgAfter(sink.argv, <<"-", "b">>)),
            channels |-> NatOf(ArgAfter(sink.argv, <<"-", "c">>)),
            signed |-> ArgAfter(sink.argv, <<"-", "e">>) = <<"s", "i", "g", "n", "e", "d", "-", "i", "n", "t", "e", "g", "e", "r">>,
            le |-> TRUE]
      [] sink.player = "ffplay" ->
           LET f == SampleFormat(ArgAfter(sink.argv, <<"-", "f">>))
           IN [rate |-> NatOf(ArgAfter(sink.argv, <<"-", "a", "r">>)),
               bits |-> f.bits,
               channels |-> LayoutChannels(ArgAfter(sink.argv, <<"-", "c", "h", "_", "l", "a", "y", "o", "u", "t">>)),
               signed |-> f.signed,
               le |-> f.le]
      [] sink.player = "paplay" ->
           LET f == SampleFormat(ArgWith(sink.argv, <<"-", "-", "f", "o", "r", "m", "a", "t", "=">>))
           IN [rate |-> NatOf(ArgWith(sink.argv, <<"-", "-", "r", "a", "t", "e", "=">>)),
               bits |-> f.bits,
               channels |-> NatOf(ArgWith(sink.argv, <<"-", "-", "c", "h", "a", "n", "n", "e", "l", "s", "=">>)),
               signed |-> f.signed,
               le |-> f.le]

\* C14: on audio-start each of rate, width, channels takes the declared value
\* if the data has the key and its default (22050, 2, 1) if not, each on its
\* own; empty data gives (22050, 2, 1), and the sink is started with the
\* format.
C14_FormatDefaults ==
    (received # <<>> /\ Last(received).type = "audio-start") =>
        LET d == Last(received).data IN
        /\ fmt.rate = (IF HasKey(d, "rate") THEN DictGet(d, "rate", None).v ELSE 22050)
        /\ fmt.width = (IF HasKey(d, "width") THEN DictGet(d, "width", None).v ELSE 2)
        /\ fmt.channels
             = (IF HasKey(d, "channels") THEN DictGet(d, "channels", None).v ELSE 1)
        /\ d = EmptyDict => fmt = [rate |-> 22050, width |-> 2, channels |-> 1]
        /\ streaming =>
             /\ proc = Len(procs)
             /\ proc > 0
             /\ procs[proc].rate = fmt.rate
             /\ procs[proc].bits = fmt.width * 8
             /\ procs[proc].channels = fmt.channels
             /\ d = EmptyDict =>
                  Declared(procs[proc])
                    = [rate |-> 22050, bits |-> 16, channels |-> 1,
                       signed |-> TRUE, le |-> TRUE]

C14_Witness ==
    /\ Len(received) = 2
    /\ Last(received).data = JObj(<< <<"width", JInt(4)>> >>)
    /\ fmt = [rate |-> 22050, width |-> 4, channels |-> 1]
    /\ received[1].data = JObj(<< <<"rate", JInt(16000)>>, <<"channels", JInt(2)>> >>)
    /\ Len(procs) = 2

C14_WitnessEmpty ==
    /\ Len(received) = 2
    /\ received[1].data = JObj(<< <<"rate", JInt(16000)>>, <<"width", JInt(4)>>,
                                  <<"channels", JInt(2)>> >>)
    /\ Last(received).data = EmptyDict
    /\ player = "paplay"
    /\ procs[2].argv[5] = <<"-", "-", "f", "o", "r", "m", "a", "t", "=", "s", "1", "6", "l", "e">>

\* The i-th audio-start received.
RECURSIVE NthStart(_, _)
NthStart(evs, i) ==
    IF Head(evs).type = "audio-start"
    THEN (IF i = 1 THEN Head(evs) ELSE NthStart(Tail(evs), i - 1))
    ELSE NthStart(Tail(evs), i)

\* C19: the command line of every sink started declares signed samples of
\* width x 8 bits, little-endian where a byte order is named, at the rate
\* and with the channels of the format; a player that is none of sox,
\* ffplay, paplay gets no process.
C19_SinkProvisioning ==
    /\ \A i \in 1..Len(procs) :
         LET f == FormatOf(NthStart(received, i).data)
             d == Declared(procs[i])
         IN /\ procs[i].player = player
            /\ d.bits = f.width * 8
            /\ d.signed
            /\ d.le
            /\ d.rate = f.rate
            /\ d.channels = f.channels
    /\ \A name \in Players \ {"sox", "ffplay", "paplay"} :
         StartStreamingPlayer(name, fmt.rate, fmt.width, fmt.channels, debug) = <<>>

====
